---- MODULE Spec2Model ----
(***************************************************************************)
(* Model of the statscore regression engine (packages/stats `linear`, the  *)
(* earlier src/regression `_linear`) and its numeric utilities.            *)
(*                                                                         *)
(* Numbers.  The program computes in IEEE-754 binary floating point.  A    *)
(* number is modelled as a record [k, m, e]:                               *)
(*    k = "fin"        the finite value m * 2^e, m odd (or m = 0, e = 0)   *)
(*    k = "inf"        +Infinity (m = 1) or -Infinity (m = -1)             *)
(*    k = "nan"        NaN                                                 *)
(*    k = "null"       the JavaScript value null                           *)
(*    k = "undefined"  the JavaScript value undefined                      *)
(* Every arithmetic operator rounds its exact result to MantBits           *)
(* significant bits, ties to even, as the hardware does.  The significand  *)
(* is narrower than binary64's 53 bits so that the integers stay small;    *)
(* the exponent is unbounded, so overflow to Infinity and underflow to 0   *)
(* are not modelled, and -0 is identified with 0.                          *)
(***************************************************************************)
EXTENDS Integers, Sequences, FiniteSets, TLC

\* Significand width of the modelled floating point format.
MantBits == 11

\* Longest input sequence handed to the regression.
MaxLen == 3

\* Number of calls made in one session.
MaxCalls == 3

----------------------------------------------------------------------------
\* Floating point values

NaN == [k |-> "nan", m |-> 0, e |-> 0]

PosInfinity == [k |-> "inf", m |-> 1, e |-> 0]

NegInfinity == [k |-> "inf", m |-> -1, e |-> 0]

null == [k |-> "null", m |-> 0, e |-> 0]

undefined == [k |-> "undefined", m |-> 0, e |-> 0]

Abs(n) == IF n < 0 THEN -n ELSE n

Sign(n) == IF n < 0 THEN -1 ELSE 1

RECURSIVE Pow2(_)
Pow2(n) == IF n <= 0 THEN 1 ELSE 2 * Pow2(n - 1)

\* Number of bits of the natural number n.
RECURSIVE BitLen(_)
BitLen(n) == IF n = 0 THEN 0 ELSE 1 + BitLen(n \div 2)

\* The finite value m * 2^e in canonical form.
RECURSIVE Canon(_, _)
Canon(m, e) ==
    IF m = 0 THEN [k |-> "fin", m |-> 0, e |-> 0]
    ELSE IF m % 2 = 0 THEN Canon(m \div 2, e + 1)
    ELSE [k |-> "fin", m |-> m, e |-> e]

\* m * 2^e (plus a nonzero amount below the last bit of m when sticky) rounded
\* to MantBits significant bits, ties to even.
RoundToNearestEven(m, e, sticky) ==
    LET a == Abs(m)
        s == BitLen(a) - MantBits
    IN  IF s <= 0 THEN Canon(m, e)
        ELSE LET q == a \div Pow2(s)
                 r == a % Pow2(s)
                 h == Pow2(s - 1)
                 up == \/ r > h
                       \/ r = h /\ (sticky \/ q % 2 = 1)
             IN  Canon(Sign(m) * (IF up THEN q + 1 ELSE q), e + s)

\* The number literal n (an integer).
Int2Num(n) == RoundToNearestEven(n, 0, FALSE)

Zero == Int2Num(0)

One == Int2Num(1)

\* Position of the leading bit of a finite nonzero value.
Top(a) == a.e + BitLen(Abs(a.m))

Neg(a) ==
    IF a.k \in {"fin", "inf"} THEN [a EXCEPT !.m = -a.m] ELSE a

\* a + b
fadd(a, b) ==
    IF a.k = "nan" \/ b.k = "nan" THEN NaN
    ELSE IF a.k = "inf" /\ b.k = "inf" THEN (IF a.m = b.m THEN a ELSE NaN)
    ELSE IF a.k = "inf" THEN a
    ELSE IF b.k = "inf" THEN b
    ELSE IF a.m = 0 THEN b
    ELSE IF b.m = 0 THEN a
    ELSE IF Top(a) - Top(b) > MantBits + 2 THEN a
    ELSE IF Top(b) - Top(a) > MantBits + 2 THEN b
    ELSE LET e == IF a.e < b.e THEN a.e ELSE b.e
         IN  RoundToNearestEven(a.m * Pow2(a.e - e) + b.m * Pow2(b.e - e), e, FALSE)

\* a - b
fsub(a, b) == fadd(a, Neg(b))

\* a * b
fmul(a, b) ==
    IF a.k = "nan" \/ b.k = "nan" THEN NaN
    ELSE IF a.k = "inf" \/ b.k = "inf"
         THEN (IF a.m = 0 \/ b.m = 0 THEN NaN
               ELSE IF Sign(a.m) = Sign(b.m) THEN PosInfinity ELSE NegInfinity)
    ELSE RoundToNearestEven(a.m * b.m, a.e + b.e, FALSE)

\* a / b
fdiv(a, b) ==
    IF a.k = "nan" \/ b.k = "nan" THEN NaN
    ELSE IF a.k = "inf"
         THEN (IF b.k = "inf" THEN NaN
               ELSE IF Sign(a.m) = Sign(b.m) THEN PosInfinity ELSE NegInfinity)
    ELSE IF b.k = "inf" THEN Zero
    ELSE IF b.m = 0
         THEN (IF a.m = 0 THEN NaN
               ELSE IF a.m > 0 THEN PosInfinity ELSE NegInfinity)
    ELSE IF a.m = 0 THEN Zero
    ELSE LET na == Abs(a.m)
             nb == Abs(b.m)
             t == MantBits + 2 + BitLen(nb) - BitLen(na)
             q == (na * Pow2(t)) \div nb
             r == (na * Pow2(t)) % nb
         IN  RoundToNearestEven(Sign(a.m) * Sign(b.m) * q, a.e - b.e - t, r # 0)

\* The decimal literal n / d (d a power of ten): the nearest representable value.
Dec(n, d) == fdiv(Int2Num(n), Int2Num(d))

\* isNaN(v)
isNaN(v) == v.k \in {"nan", "undefined"}

\* isFinite(v): null converts to 0
isFinite(v) == v.k \in {"fin", "null"}

\* Number.isFinite(v): no conversion
NumberIsFinite(v) == v.k = "fin"

\* Math.round(v) = floor(v + 0.5), computed exactly
MathRound(v) ==
    IF v.k # "fin" THEN v
    ELSE IF v.e >= 0 THEN v
    ELSE IF -v.e > MantBits + 1 THEN Zero
    ELSE Canon((2 * v.m + Pow2(-v.e)) \div Pow2(1 - v.e), 0)

\* 10 ** p for a small natural exponent p
RECURSIVE Pow10(_)
Pow10(p) == IF p <= 0 THEN 1 ELSE 10 * Pow10(p - 1)

\* The natural number a finite integral value stands for.
NumToInt(v) == v.m * Pow2(v.e)

----------------------------------------------------------------------------
\* Numeric utilities (util.ts)

\* round(number, precision)
round(number, precision) ==
    IF precision = undefined \/ precision = null \/ ~NumberIsFinite(precision)
    THEN number
    ELSE LET factor == Int2Num(Pow10(NumToInt(precision)))
         IN  fdiv(MathRound(fmul(number, factor)), factor)

\* isValid(value)
isValid(value) == value # null /\ ~isNaN(value) /\ isFinite(value)

\* data.filter(d => d[1] !== null), with results[i] kept alongside: the indices
\* of the observations, in order.
RECURSIVE NonNullIndices(_, _)
NonNullIndices(data, n) ==
    IF n = 0 THEN <<>>
    ELSE IF data[n][2] # null THEN Append(NonNullIndices(data, n - 1), n)
    ELSE NonNullIndices(data, n - 1)

\* observations.reduce((a, observation) => a + observation[1], 0)
RECURSIVE ReduceSumY(_, _, _)
ReduceSumY(data, idx, n) ==
    IF n = 0 THEN Zero
    ELSE fadd(ReduceSumY(data, idx, n - 1), data[idx[n]][2])

\* observations.reduce(... a + (observation[1] - meanY)^2 ..., 0)
RECURSIVE ReduceSsyy(_, _, _, _)
ReduceSsyy(data, idx, meanY, n) ==
    IF n = 0 THEN Zero
    ELSE LET difference == fsub(data[idx[n]][2], meanY)
         IN  fadd(ReduceSsyy(data, idx, meanY, n - 1), fmul(difference, difference))

\* observations.reduce(... accum + (observation[1] - prediction[1])^2 ..., 0)
RECURSIVE ReduceSse(_, _, _, _)
ReduceSse(data, results, idx, n) ==
    IF n = 0 THEN Zero
    ELSE LET residual == fsub(data[idx[n]][2], results[idx[n]][2])
         IN  fadd(ReduceSse(data, results, idx, n - 1), fmul(residual, residual))

\* Variant of rSquared that keeps the pairs whose observed y is null, a null
\* counting as 0.
rSquaredOverAllPairs(data, results) ==
    LET idx == [i \in 1..Len(data) |-> i]
        n == Len(idx)
        zeroed == [i \in 1..Len(data) |->
                      IF data[i][2] = null THEN <<data[i][1], Zero>> ELSE data[i]]
    IN  IF n = 0 THEN NaN
        ELSE LET sumY == ReduceSumY(zeroed, idx, n)
                 meanY == fdiv(sumY, Int2Num(n))
                 ssyy == ReduceSsyy(zeroed, idx, meanY, n)
                 sse == ReduceSse(zeroed, results, idx, n)
             IN  IF ssyy = Zero
                 THEN (IF sse = Zero THEN One ELSE NaN)
                 ELSE fsub(One, fdiv(sse, ssyy))

\* rSquared(data, results)
rSquared(data, results) ==
    LET idx == NonNullIndices(data, Len(data))
        n == Len(idx)
    IN  IF n = 0 THEN NaN
        ELSE LET sumY == ReduceSumY(data, idx, n)
                 meanY == fdiv(sumY, Int2Num(n))
                 ssyy == ReduceSsyy(data, idx, meanY, n)
                 sse == ReduceSse(data, results, idx, n)
             IN  IF ssyy = Zero
                 THEN (IF sse = Zero THEN One ELSE NaN)
                 ELSE fsub(One, fdiv(sse, ssyy))

----------------------------------------------------------------------------
\* Regression engine (packages/stats linear)

\* Variant of the defaults that leaves precision unset.
DefaultsWithoutPrecision ==
    [order |-> Int2Num(2), precision |-> undefined, period |-> null]

DEFAULT_OPTIONS ==
    [order |-> Int2Num(2), precision |-> Int2Num(2), period |-> null]

\* { ...DEFAULT_OPTIONS, ...suppliedOptions }
MergeOptions(suppliedOptions) == suppliedOptions @@ DEFAULT_OPTIONS

\* The accumulators after the first n points of the loop.
RECURSIVE Accumulate(_, _)
Accumulate(data, n) ==
    IF n = 0
    THEN [sumX |-> Zero, sumY |-> Zero, sumX2 |-> Zero, sumXY |-> Zero, sumY2 |-> Zero]
    ELSE LET s == Accumulate(data, n - 1)
             x == data[n][1]
             y == data[n][2]
         IN  [sumX |-> fadd(s.sumX, x),
              sumY |-> fadd(s.sumY, y),
              sumX2 |-> fadd(s.sumX2, fmul(x, x)),
              sumXY |-> fadd(s.sumXY, fmul(x, y)),
              sumY2 |-> fadd(s.sumY2, fmul(y, y))]

\* Position (1-based) of the first point the loop rejects, 0 when there is none.
RECURSIVE FirstInvalid(_, _)
FirstInvalid(data, n) ==
    IF n > Len(data) THEN 0
    ELSE IF ~isValid(data[n][1]) \/ ~isValid(data[n][2]) THEN n
    ELSE FirstInvalid(data, n + 1)

\* Variant of run without the factor len.
RunWithoutLen(len, s) == fsub(s.sumX2, fmul(s.sumX, s.sumX))

\* run = len * sumX2 - sumX * sumX
Run(len, s) == fsub(fmul(Int2Num(len), s.sumX2), fmul(s.sumX, s.sumX))

\* rise = len * sumXY - sumX * sumY
Rise(len, s) == fsub(fmul(Int2Num(len), s.sumXY), fmul(s.sumX, s.sumY))

\* Variant of the gradient with the quotient inverted.
GradientInverted(rise, run, precision) == round(fdiv(run, rise), precision)

\* gradient = round(rise / run, options.precision)
Gradient(rise, run, precision) == round(fdiv(rise, run), precision)

\* Variant of the intercept computed from the slope before it is rounded.
InterceptFromQuotient(s, len, gradient, precision) ==
    round(fsub(fdiv(s.sumY, Int2Num(len)),
               fdiv(fmul(fdiv(Rise(len, s), Run(len, s)), s.sumX), Int2Num(len))),
          precision)

\* intercept = round(sumY / len - (gradient * sumX) / len, options.precision)
Intercept(s, len, gradient, precision) ==
    round(fsub(fdiv(s.sumY, Int2Num(len)),
               fdiv(fmul(gradient, s.sumX), Int2Num(len))),
          precision)

\* Variant of predict that rounds x before the multiplication.
predictOnRoundedX(env, x) ==
    << round(x, env.precision),
       round(fadd(fmul(env.gradient, round(x, env.precision)), env.intercept),
             env.precision) >>

\* The closure predict: env holds the captured gradient, intercept and precision.
predict(env, x) ==
    << round(x, env.precision),
       round(fadd(fmul(env.gradient, x), env.intercept), env.precision) >>

\* Variant of points that predicts only where the input has a y.
PointsWhereObserved(data, env) ==
    [i \in 1..Len(data) |->
        IF data[i][2] = null THEN <<data[i][1], null>>
        ELSE predict(env, data[i][1])]

\* data.map((point) => predict(point[0]))
Points(data, env) == [i \in 1..Len(data) |-> predict(env, data[i][1])]

\* Variant of the error return that raises an exception instead.
ThrownError(errorType, text, args) == [threw |-> errorType]

\* return { ok: false, errorType, message }
RegressionError(errorType, text, args) ==
    [ok |-> FALSE, errorType |-> errorType,
     message |-> [text |-> text, args |-> args]]

\* Variant of the closing step that returns the result without testing r2.
ConcludeUnchecked(points, env, r2) ==
    [ok |-> TRUE, points |-> points, predict |-> env,
     m |-> env.gradient, b |-> env.intercept,
     rSquared |-> round(r2, env.precision), method |-> "linear"]

\* Variant of the closing step that reports an undefined r2 under the kind
\* the error type reserves for ill-conditioned input.
ConcludeNumericalStability(points, env, r2) ==
    IF isNaN(r2)
    THEN RegressionError("NumericalStability",
                    "R-squared calculation failed or resulted in NaN.",
                    <<>>)
    ELSE [ok |-> TRUE, points |-> points, predict |-> env,
          m |-> env.gradient, b |-> env.intercept,
          rSquared |-> round(r2, env.precision), method |-> "linear"]

\* The closing step of linear: the test of r2 and the returned success.
Conclude(points, env, r2) ==
    IF isNaN(r2)
    THEN RegressionError("MathError",
                    "R-squared calculation failed or resulted in NaN.",
                    <<>>)
    ELSE [ok |-> TRUE, points |-> points, predict |-> env,
          m |-> env.gradient, b |-> env.intercept,
          rSquared |-> round(r2, env.precision), method |-> "linear"]

\* linear(suppliedOptions, data)
linear(suppliedOptions, data) ==
    LET options == MergeOptions(suppliedOptions)
        len == Len(data)
        bad == FirstInvalid(data, 1)
    IN  IF len < 2
        THEN RegressionError("InsufficientData",
                        "Linear regression requires at least 2 valid data points (x, y). Received ${data.length}.",
                        <<len>>)
        ELSE IF bad # 0
        THEN RegressionError("InvalidInput",
                        "Data point at index ${n} contains non-finite values (${x}, ${y}). Linear regression requires finite numerical inputs.",
                        <<bad - 1>>)
        ELSE LET s == Accumulate(data, len)
                 run == Run(len, s)
                 rise == Rise(len, s)
             IN  IF run = Zero
                 THEN RegressionError("DegenerateInput",
                                 "Cannot perform linear regression: all x-values are identical, resulting in a vertical line.",
                                 <<>>)
                 ELSE LET gradient == Gradient(rise, run, options.precision)
                          intercept == Intercept(s, len, gradient, options.precision)
                          env == [gradient |-> gradient, intercept |-> intercept,
                                  precision |-> options.precision]
                          points == Points(data, env)
                          r2 == rSquared(data, points)
                      IN  IF isNaN(gradient) \/ ~isFinite(gradient)
                             \/ isNaN(intercept) \/ ~isFinite(intercept)
                          THEN RegressionError("MathError",
                                          "Linear regression resulted in non-finite coefficients (NaN or Infinity).",
                                          <<>>)
                          ELSE Conclude(points, env, r2)

----------------------------------------------------------------------------
\* Earlier regression engine (src/regression _linear)

\* data.filter(d => d[1] !== null)
RECURSIVE FilterNonNull(_)
FilterNonNull(data) ==
    IF data = <<>> THEN <<>>
    ELSE IF Head(data)[2] # null THEN <<Head(data)>> \o FilterNonNull(Tail(data))
    ELSE FilterNonNull(Tail(data))

\* _linear(suppliedOptions, data)
_linear(suppliedOptions, data) ==
    LET options == MergeOptions(suppliedOptions)
        filteredData == FilterNonNull(data)
        len == Len(filteredData)
    IN  IF len < 2
        THEN RegressionError("InsufficientData",
                        "Linear regression requires at least 2 valid data points (x, y). Received ${filteredData.length}.",
                        <<len>>)
        ELSE LET sum == Accumulate(filteredData, len)
                 run == Run(len, sum)
                 rise == Rise(len, sum)
             IN  IF run = Zero
                 THEN RegressionError("DegenerateInput",
                                 "Cannot perform linear regression: all x-values are identical, resulting in a vertical line.",
                                 <<>>)
                 ELSE LET gradient == Gradient(rise, run, options.precision)
                          intercept == Intercept(sum, len, gradient, options.precision)
                          env == [gradient |-> gradient, intercept |-> intercept,
                                  precision |-> options.precision]
                          points == Points(data, env)
                      IN  [ok |-> TRUE, points |-> points, predict |-> env,
                           equation |-> <<gradient, intercept>>,
                           r2 |-> round(rSquared(data, points), options.precision),
                           string |-> [text |-> IF intercept = Zero THEN "y = ${gradient}x"
                                                ELSE "y = ${gradient}x + ${intercept}",
                                       args |-> <<gradient, intercept>>]]

----------------------------------------------------------------------------
\* Insight layer (packages/forge)

\* ToNumber of a value used in a comparison: null is 0, undefined is NaN.
ToNumber(v) ==
    IF v.k = "null" THEN Zero ELSE IF v.k = "undefined" THEN NaN ELSE v

\* The sign of a - b (-1, 0, 1), or 2 when the two do not compare (a NaN).
Compare(a, b) ==
    LET x == ToNumber(a)
        y == ToNumber(b)
    IN  IF x.k = "nan" \/ y.k = "nan" THEN 2
        ELSE IF x = y THEN 0
        ELSE LET d == fsub(x, y) IN IF d.m > 0 THEN 1 ELSE -1

\* a >= b, a > b, a < b
fge(a, b) == Compare(a, b) \in {0, 1}

fgt(a, b) == Compare(a, b) = 1

flt(a, b) == Compare(a, b) = -1

\* result.<name>, undefined when the property is absent
Field(object, name) ==
    IF name \in DOMAIN object THEN object[name] ELSE undefined

\* a ?? b
Coalesce(a, b) == IF a.k \in {"null", "undefined"} THEN b ELSE a

\* value.toFixed(2): the decimal string with two fraction digits, given as the
\* number of hundredths nearest to the value (a half going away from zero);
\* "NaN" and "Infinity" for such values; a TypeError for undefined and null.
toFixed2(value) ==
    IF value.k \in {"undefined", "null"} THEN [threw |-> "TypeError"]
    ELSE IF value.k = "nan" THEN [string |-> "NaN", hundredths |-> 0]
    ELSE IF value.k = "inf" THEN [string |-> "Infinity", hundredths |-> value.m]
    ELSE LET num == Abs(value.m) * 100 * Pow2(value.e)
             den == Pow2(-value.e)
             n == (2 * num + den) \div (2 * den)
         IN  [string |-> "digits", hundredths |-> Sign(value.m) * n]

\* Variant of the translator whose catch-all reports the kind as "Unknown".
regressionErrorUnknownKind(errorResult) ==
    IF errorResult.errorType = "InsufficientData"
    THEN [ok |-> FALSE,
          message |-> "Unable to calculate trend: Not enough data points.",
          helpText |-> "Linear regression requires at least two distinct data points. Please provide more data.",
          originalErrorType |-> errorResult.errorType]
    ELSE IF errorResult.errorType = "InvalidInput"
    THEN [ok |-> FALSE,
          message |-> "Invalid data provided.",
          helpText |-> "Ensure your data only contains valid numerical values (e.g., no 'null', 'undefined', or non-numeric strings).",
          originalErrorType |-> errorResult.errorType]
    ELSE [ok |-> FALSE,
          message |-> "An unexpected error occurred during linear regression calculation.",
          helpText |-> "Please contact support with the details of the data you were trying to analyze.",
          originalErrorType |-> "Unknown"]

\* regressionError(errorResult)
regressionError(errorResult) ==
    IF errorResult.errorType = "InsufficientData"
    THEN [ok |-> FALSE,
          message |-> "Unable to calculate trend: Not enough data points.",
          helpText |-> "Linear regression requires at least two distinct data points. Please provide more data.",
          originalErrorType |-> errorResult.errorType]
    ELSE IF errorResult.errorType = "InvalidInput"
    THEN [ok |-> FALSE,
          message |-> "Invalid data provided.",
          helpText |-> "Ensure your data only contains valid numerical values (e.g., no 'null', 'undefined', or non-numeric strings).",
          originalErrorType |-> errorResult.errorType]
    ELSE [ok |-> FALSE,
          message |-> "An unexpected error occurred during linear regression calculation.",
          helpText |-> "Please contact support with the details of the data you were trying to analyze.",
          originalErrorType |-> errorResult.errorType]

\* Variant of the summary that treats a slope within 0.001 of zero as no trend.
regressionSummaryWithTolerance(result) ==
    LET m == Field(result, "m")
        b == Field(result, "b")
        chartAnnotations == << [text |-> "drawTrendLine:${m},${b}", args |-> <<m, b>>] >>
        summary ==
            IF fgt(m, Dec(1, 1000))
            THEN "There is a positive linear trend. As X increases, Y tends to increase."
            ELSE IF flt(m, Dec(-1, 1000))
            THEN "There is a negative linear trend. As X increases, Y tends to decrease."
            ELSE "There is no significant linear trend. Y remains relatively constant as X changes."
    IN  [summary |-> summary, type |-> "TrendDescription",
         data |-> [m |-> m, b |-> b], annotations |-> chartAnnotations]

\* regressionSummary(result)
regressionSummary(result) ==
    LET m == Field(result, "m")
        b == Field(result, "b")
        chartAnnotations == << [text |-> "drawTrendLine:${m},${b}", args |-> <<m, b>>] >>
        summary ==
            IF fgt(m, Zero)
            THEN "There is a positive linear trend. As X increases, Y tends to increase."
            ELSE IF flt(m, Zero)
            THEN "There is a negative linear trend. As X increases, Y tends to decrease."
            ELSE "There is no significant linear trend. Y remains relatively constant as X changes."
    IN  [summary |-> summary, type |-> "TrendDescription",
         data |-> [m |-> m, b |-> b], annotations |-> chartAnnotations]

\* The default thresholds of correlationStrength
DefaultRSqWeak == Dec(3, 10)

DefaultRSqStrong == Dec(7, 10)

\* Variant of correlationStrength whose thresholds are exclusive (> for >=).
correlationStrengthExclusive(options, result) ==
    LET rSq == Field(result, "rSquared")
        rSqWeak == Coalesce(Field(options, "rSquaredThresholdWeak"), DefaultRSqWeak)
        rSqStrong == Coalesce(Field(options, "rSquaredThresholdStrong"), DefaultRSqStrong)
        fixed == toFixed2(rSq)
        text ==
            IF fgt(rSq, rSqStrong)
            THEN "There is a strong linear correlation (R-squared: ${rSquared.toFixed(2)}), indicating the model explains a large portion of the variance."
            ELSE IF fgt(rSq, rSqWeak)
            THEN "There is a moderate linear correlation (R-squared: ${rSquared.toFixed(2)})."
            ELSE "There is a weak linear correlation (R-squared: ${rSquared.toFixed(2)}), suggesting the linear model may not be the best fit or other factors are at play."
    IN  IF "threw" \in DOMAIN fixed THEN fixed
        ELSE [summary |-> [text |-> text, args |-> <<fixed>>],
              type |-> "CorrelationStrength",
              data |-> [rSquared |-> rSq]]

\* Variant of correlationStrength that takes both defaults as soon as one
\* threshold is absent.
correlationStrengthCoupled(options, result) ==
    LET rSq == Field(result, "rSquared")
        both == /\ Field(options, "rSquaredThresholdWeak").k \notin {"null", "undefined"}
                /\ Field(options, "rSquaredThresholdStrong").k \notin {"null", "undefined"}
        rSqWeak == IF both THEN options.rSquaredThresholdWeak ELSE DefaultRSqWeak
        rSqStrong == IF both THEN options.rSquaredThresholdStrong ELSE DefaultRSqStrong
        fixed == toFixed2(rSq)
        text ==
            IF fge(rSq, rSqStrong)
            THEN "There is a strong linear correlation (R-squared: ${rSquared.toFixed(2)}), indicating the model explains a large portion of the variance."
            ELSE IF fge(rSq, rSqWeak)
            THEN "There is a moderate linear correlation (R-squared: ${rSquared.toFixed(2)})."
            ELSE "There is a weak linear correlation (R-squared: ${rSquared.toFixed(2)}), suggesting the linear model may not be the best fit or other factors are at play."
    IN  IF "threw" \in DOMAIN fixed THEN fixed
        ELSE [summary |-> [text |-> text, args |-> <<fixed>>],
              type |-> "CorrelationStrength",
              data |-> [rSquared |-> rSq]]

\* correlationStrength(options)(result)
correlationStrength(options, result) ==
    LET rSq == Field(result, "rSquared")
        rSqWeak == Coalesce(Field(options, "rSquaredThresholdWeak"), DefaultRSqWeak)
        rSqStrong == Coalesce(Field(options, "rSquaredThresholdStrong"), DefaultRSqStrong)
        fixed == toFixed2(rSq)
        text ==
            IF fge(rSq, rSqStrong)
            THEN "There is a strong linear correlation (R-squared: ${rSquared.toFixed(2)}), indicating the model explains a large portion of the variance."
            ELSE IF fge(rSq, rSqWeak)
            THEN "There is a moderate linear correlation (R-squared: ${rSquared.toFixed(2)})."
            ELSE "There is a weak linear correlation (R-squared: ${rSquared.toFixed(2)}), suggesting the linear model may not be the best fit or other factors are at play."
    IN  IF "threw" \in DOMAIN fixed THEN fixed
        ELSE [summary |-> [text |-> text, args |-> <<fixed>>],
              type |-> "CorrelationStrength",
              data |-> [rSquared |-> rSq]]

\* Variant of the generator that answers an error with an empty insight list.
linearRegressionInsightsSwallowing(options, statsResult) ==
    IF ~statsResult.ok
    THEN [ok |-> FALSE, insights |-> <<>>,
          originalErrorType |-> statsResult.errorType]
    ELSE [ok |-> TRUE,
          insights |-> <<regressionSummary(statsResult),
                         correlationStrength(options, statsResult)>>]

\* linearRegressionInsights(options, statsResult)
linearRegressionInsights(options, statsResult) ==
    IF ~statsResult.ok THEN regressionError(statsResult)
    ELSE LET first == regressionSummary(statsResult)
             second == correlationStrength(options, statsResult)
         IN  IF "threw" \in DOMAIN second THEN second
             ELSE [ok |-> TRUE, insights |-> <<first, second>>]

----------------------------------------------------------------------------
\* Calls made by a client of the library

VARIABLES
    suppliedOptions,  \* the options argument
    data,             \* the data argument
    pc,               \* "start", then "fit" / "legacy" (the engine called), then "predict"
    result,           \* what the engine returned
    query,            \* the x handed to result.predict
    predicted,        \* what result.predict returned
    results,          \* the predicted points handed to rSquared
    r2,               \* what rSquared returned
    options,          \* the options handed to the insight generator
    insight,          \* what the insight generator or the error translator returned
    calls,            \* the calls completed so far, each with its arguments and its return
    defaultOptions,   \* the contents of the module-level object DEFAULT_OPTIONS
    closures          \* the partial applications made so far of a curried function

vars ==
    <<suppliedOptions, data, pc, result, query, predicted, results, r2,
      options, insight, calls, defaultOptions, closures>>

\* The variables of a sequence of calls.
session == <<calls, defaultOptions, closures>>

\* The variables of the calls that follow a fit.
later == <<results, r2, options, insight, session>>

\* No call made yet, the module as loaded.
FreshSession ==
    /\ calls = <<>>
    /\ defaultOptions = DEFAULT_OPTIONS
    /\ closures = <<>>

NoInsight == [ok |-> FALSE, originalErrorType |-> "none"]

NoResult == [ok |-> FALSE, errorType |-> "none"]

\* Sequences of at most n elements of S.
SeqUpTo(S, n) == UNION {[1..k -> S] : k \in 0..n}

\* Option objects a caller passes: {} and { precision: p }.
NoOptions == [f \in {} |-> undefined]

WithPrecision(p) == [precision |-> p]

\* Arguments x handed to predict.
Queries ==
    {Dec(15, 10), Dec(4, 10), Dec(6, 10), Dec(-15, 10), Int2Num(2), Int2Num(8)}

\* Inputs with absent, non-finite and repeated coordinates.
InputPoints ==
    { <<Int2Num(1), Int2Num(2)>>, <<Int2Num(3), Int2Num(4)>>,
      <<Int2Num(2), null>>, <<NaN, Int2Num(1)>>, <<Int2Num(1), PosInfinity>>,
      <<Dec(3, 10), Int2Num(1)>>, <<Dec(3, 10), Int2Num(2)>> }

InputOptions == {NoOptions, WithPrecision(Int2Num(0))}

InitWith(points, opts) ==
    /\ suppliedOptions \in opts
    /\ data \in SeqUpTo(points, MaxLen)
    /\ pc = "start"
    /\ result = NoResult
    /\ query = Zero
    /\ predicted = <<Zero, Zero>>
    /\ results = <<>>
    /\ r2 = NaN
    /\ options = NoOptions
    /\ insight = NoInsight
    /\ FreshSession

Init == InitWith(InputPoints, InputOptions)

\* Inputs on lines of slope 1, 2, 1/2 and 1/8, with one absent y.
RoundPoints ==
    { <<Int2Num(0), Int2Num(0)>>, <<Int2Num(0), Int2Num(1)>>,
      <<Int2Num(1), Int2Num(2)>>, <<Int2Num(8), Int2Num(4)>>,
      <<Int2Num(8), Int2Num(1)>>, <<Int2Num(1), null>> }

RoundOptions ==
    {NoOptions, WithPrecision(Int2Num(0)), WithPrecision(Int2Num(1)),
     WithPrecision(undefined)}

InitRound == InitWith(RoundPoints, RoundOptions)

\* result = linear(suppliedOptions, data)
Fit ==
    /\ pc = "start"
    /\ result' = linear(suppliedOptions, data)
    /\ pc' = "fit"
    /\ UNCHANGED <<suppliedOptions, data, query, predicted, later>>

\* result = _linear(suppliedOptions, data)
FitLegacy ==
    /\ pc = "start"
    /\ result' = _linear(suppliedOptions, data)
    /\ pc' = "legacy"
    /\ UNCHANGED <<suppliedOptions, data, query, predicted, later>>

\* result.predict(x)
Predict(x) ==
    /\ pc \in {"fit", "legacy"}
    /\ result.ok
    /\ query' = x
    /\ predicted' = predict(result.predict, x)
    /\ pc' = IF pc = "fit" THEN "predict" ELSE "predictLegacy"
    /\ UNCHANGED <<suppliedOptions, data, result, later>>

Next ==
    \/ Fit
    \/ FitLegacy
    \/ \E x \in Queries : Predict(x)

Spec == Init /\ [][Next]_vars

SpecRound == InitRound /\ [][Next]_vars

\* Observed points with repeated and fractional y, and one absent y.
R2Points ==
    { <<Int2Num(0), Dec(5, 10)>>, <<Int2Num(1), Dec(5, 10)>>,
      <<Int2Num(8), Int2Num(1)>>, <<Int2Num(1), null>> }

\* Predicted y-values handed to rSquared.
R2Predictions == {Dec(5, 10), Int2Num(1)}

\* Either the arguments of a call of linear, or those of a call of rSquared:
\* observed points with index-aligned predicted points.
InitR2 ==
    /\ data \in SeqUpTo(R2Points, MaxLen)
    /\ \/ /\ suppliedOptions \in InputOptions
          /\ results = <<>>
          /\ pc = "start"
       \/ /\ suppliedOptions = NoOptions
          /\ results \in [1..Len(data) -> {<<Zero, y>> : y \in R2Predictions}]
          /\ pc = "helper"
    /\ result = NoResult
    /\ query = Zero
    /\ predicted = <<Zero, Zero>>
    /\ r2 = NaN
    /\ options = NoOptions
    /\ insight = NoInsight
    /\ FreshSession

\* r2 = rSquared(data, results)
RSquared ==
    /\ pc = "helper"
    /\ r2' = rSquared(data, results)
    /\ pc' = "rSquared"
    /\ UNCHANGED <<suppliedOptions, data, result, query, predicted, results,
                   options, insight, session>>

NextR2 ==
    \/ Fit
    \/ RSquared

SpecR2 == InitR2 /\ [][NextR2]_vars

\* createMockRegressionSuccess(overrides): the fields the insight layer reads.
MockRegressionSuccess(m, b, rSq) ==
    [ok |-> TRUE, m |-> m, b |-> b, rSquared |-> rSq, method |-> "linear"]

\* A success whose optional rSquared is absent.
MockWithoutRSquared(m, b) == [ok |-> TRUE, m |-> m, b |-> b, method |-> "linear"]

\* createMockRegressionError(errorType)
MockRegressionError(errorType) ==
    [ok |-> FALSE, errorType |-> errorType, message |-> "Error"]

MockSlopes ==
    {Dec(25, 10), Dec(-15, 10), Int2Num(0), Dec(1, 10000), Int2Num(-100), NaN}

MockRSquareds ==
    {Dec(85, 100), Dec(3, 10), Dec(7, 10), Dec(6, 10), Dec(35, 100),
     Dec(5, 10), Dec(1, 10), Int2Num(0), Int2Num(1), Int2Num(-1), NaN}

MockErrorTypes ==
    {"InsufficientData", "InvalidInput", "DegenerateInput", "MathError",
     "NumericalStability", "SomeOtherError"}

MockResults ==
    {MockRegressionSuccess(m, Int2Num(10), rSq) : m \in MockSlopes, rSq \in MockRSquareds}
    \cup {MockWithoutRSquared(m, Int2Num(10)) : m \in MockSlopes}
    \cup {MockRegressionError(errorType) : errorType \in MockErrorTypes}

\* Insight options: none, both thresholds, one threshold, thresholds swapped.
InsightOptions ==
    { NoOptions,
      [rSquaredThresholdWeak |-> Dec(3, 10), rSquaredThresholdStrong |-> Dec(7, 10)],
      [rSquaredThresholdWeak |-> Dec(5, 10), rSquaredThresholdStrong |-> Dec(9, 10)],
      [rSquaredThresholdWeak |-> Dec(4, 10)],
      [rSquaredThresholdWeak |-> Dec(9, 10), rSquaredThresholdStrong |-> Dec(5, 10)] }

InitInsight ==
    /\ suppliedOptions = NoOptions
    /\ data = <<>>
    /\ pc = "mock"
    /\ result \in MockResults
    /\ query = Zero
    /\ predicted = <<Zero, Zero>>
    /\ results = <<>>
    /\ r2 = NaN
    /\ options \in InsightOptions
    /\ insight = NoInsight
    /\ FreshSession

engine == <<suppliedOptions, data, result, query, predicted, results, r2>>

\* insight = regressionError(result)
Translate ==
    /\ pc = "mock"
    /\ ~result.ok
    /\ insight' = regressionError(result)
    /\ pc' = "translated"
    /\ UNCHANGED <<engine, options, session>>

\* insight = regressionSummary(result)
Summarise ==
    /\ pc = "mock"
    /\ result.ok
    /\ insight' = regressionSummary(result)
    /\ pc' = "summary"
    /\ UNCHANGED <<engine, options, session>>

\* insight = correlationStrength(options)(result)
Correlate ==
    /\ pc = "mock"
    /\ result.ok
    /\ insight' = correlationStrength(options, result)
    /\ pc' = "correlation"
    /\ UNCHANGED <<engine, options, session>>

\* insight = linearRegressionInsights(options, result)
GenerateInsights ==
    /\ pc = "mock"
    /\ insight' = linearRegressionInsights(options, result)
    /\ pc' = "insights"
    /\ UNCHANGED <<engine, options, session>>

NextInsight ==
    \/ Translate
    \/ Summarise
    \/ Correlate
    \/ GenerateInsights

SpecInsight == InitInsight /\ [][NextInsight]_vars

\* Variant of the option merge that assigns the caller's options into the
\* module-level defaults (Object.assign(DEFAULT_OPTIONS, suppliedOptions)).
OptionsAfterAssign(defaults, supplied) == supplied @@ defaults

\* DEFAULT_OPTIONS after a call of linear: the spread builds a new object and
\* leaves the defaults as they were.
OptionsAfterMerge(defaults, supplied) == defaults

\* linear(suppliedOptions, data) in a module whose DEFAULT_OPTIONS holds defaults
linearWith(defaults, supplied, points) == linear(supplied @@ defaults, points)

\* Datasets fitted in a session: two that succeed, one too short, two on a
\* vertical line.
SessionData ==
    { << <<Int2Num(0), Int2Num(0)>>, <<Int2Num(8), Int2Num(1)>> >>,
      << <<Int2Num(0), Int2Num(0)>>, <<Int2Num(1), Int2Num(2)>> >>,
      << <<Int2Num(0), Int2Num(0)>> >>,
      << <<Int2Num(1), Int2Num(1)>>, <<Int2Num(1), Int2Num(2)>>, <<Int2Num(1), Int2Num(3)>> >>,
      << <<Int2Num(8), Int2Num(1)>>, <<Int2Num(8), Int2Num(0)>> >> }

SessionInsightOptions ==
    {NoOptions, [rSquaredThresholdWeak |-> Dec(5, 10), rSquaredThresholdStrong |-> Dec(9, 10)]}

InitSession ==
    /\ suppliedOptions = NoOptions
    /\ data = <<>>
    /\ pc = "session"
    /\ result = NoResult
    /\ query = Zero
    /\ predicted = <<Zero, Zero>>
    /\ results = <<>>
    /\ r2 = NaN
    /\ options = NoOptions
    /\ insight = NoInsight
    /\ FreshSession

single == <<suppliedOptions, data, pc, result, query, predicted, results, r2, options, insight>>

\* One more call of linear in the session.
CallFit(supplied, points) ==
    /\ pc = "session"
    /\ Len(calls) < MaxCalls
    /\ calls' = Append(calls, [fn |-> "linear", args |-> <<supplied, points>>,
                               return |-> linearWith(defaultOptions, supplied, points)])
    /\ defaultOptions' = OptionsAfterMerge(defaultOptions, supplied)
    /\ UNCHANGED <<single, closures>>

\* One more call of linearRegressionInsights, on a result returned earlier.
CallInsights(opts, i) ==
    /\ pc = "session"
    /\ Len(calls) < MaxCalls
    /\ calls[i].fn = "linear"
    /\ calls' = Append(calls, [fn |-> "linearRegressionInsights",
                               args |-> <<opts, calls[i].return>>,
                               return |-> linearRegressionInsights(opts, calls[i].return)])
    /\ UNCHANGED <<single, defaultOptions, closures>>

NextSession ==
    \/ \E supplied \in InputOptions, points \in SessionData : CallFit(supplied, points)
    \/ \E opts \in SessionInsightOptions, i \in 1..Len(calls) : CallInsights(opts, i)

SpecSession == InitSession /\ [][NextSession]_vars

\* The orders in which n points can be handed over.
Orders(n) == {p \in [1..n -> 1..n] : \A i, j \in 1..n : p[i] = p[j] => i = j}

\* The points of d in the order p.
Permute(d, p) == [i \in 1..Len(d) |-> d[p[i]]]

\* Points with whole and with decimal coordinates.
OrderPoints ==
    { <<Int2Num(1), Int2Num(2)>>, <<Int2Num(8), Int2Num(1)>>,
      <<Dec(1, 10), Dec(3, 10)>>, <<Dec(7, 10), Dec(2, 10)>> }

OrderOptions == {NoOptions, WithPrecision(undefined)}

InitOrder ==
    /\ suppliedOptions \in OrderOptions
    /\ data \in SeqUpTo(OrderPoints, MaxLen) \ {<<>>}
    /\ pc = "order"
    /\ result = NoResult
    /\ query = Zero
    /\ predicted = <<Zero, Zero>>
    /\ results = <<>>
    /\ r2 = NaN
    /\ options = NoOptions
    /\ insight = NoInsight
    /\ FreshSession

\* linear(suppliedOptions, data)
FitGiven ==
    /\ pc = "order"
    /\ calls = <<>>
    /\ calls' = <<[fn |-> "linear", args |-> <<suppliedOptions, data>>,
                   return |-> linearWith(defaultOptions, suppliedOptions, data)]>>
    /\ defaultOptions' = OptionsAfterMerge(defaultOptions, suppliedOptions)
    /\ UNCHANGED <<single, closures>>

\* linear(suppliedOptions, reordered), the same points in the order p
FitPermuted(p) ==
    /\ pc = "order"
    /\ Len(calls) = 1
    /\ calls' = Append(calls, [fn |-> "linear", args |-> <<suppliedOptions, Permute(data, p)>>,
                               return |-> linearWith(defaultOptions, suppliedOptions,
                                                     Permute(data, p))])
    /\ defaultOptions' = OptionsAfterMerge(defaultOptions, suppliedOptions)
    /\ UNCHANGED <<single, closures>>

NextOrder == FitGiven \/ \E p \in Orders(Len(data)) : FitPermuted(p)

SpecOrder == InitOrder /\ [][NextOrder]_vars

----------------------------------------------------------------------------
\* curry

\* The functions handed to curry: add = (a, b, c) => a + b + c and the
\* two-parameter function that linear wraps.
Arity(fn) == IF fn = "add" THEN 3 ELSE 2

\* fn(...args): a call with more arguments than parameters ignores the rest.
Apply(fn, args) ==
    IF fn = "add" THEN fadd(fadd(args[1], args[2]), args[3])
    ELSE linear(args[1], args[2])

\* Variant of curried that runs fn only when given more arguments than its arity.
curriedBeyondArity(fn, args) ==
    IF Len(args) > Arity(fn)
    THEN [kind |-> "value", value |-> Apply(fn, args)]
    ELSE [kind |-> "function", args |-> args]

\* curried(...args): fn's result, or a function that holds args.
curried(fn, args) ==
    IF Len(args) >= Arity(fn)
    THEN [kind |-> "value", value |-> Apply(fn, args)]
    ELSE [kind |-> "function", args |-> args]

\* Variant of the accumulation that pushes moreArgs onto the held array
\* (args.push(...moreArgs); curried(...args)).
HeldAfterPush(held, moreArgs) == held \o moreArgs

\* The array a partial application holds, after it was called with moreArgs:
\* the spread builds a new argument list and leaves the held one as it was.
HeldAfterCall(held, moreArgs) == held

\* Argument lists of the calls, by function and number of arguments already given.
CurryOptions == WithPrecision(Int2Num(0))

CurryData ==
    { << <<Int2Num(0), Int2Num(0)>>, <<Int2Num(8), Int2Num(1)>> >>,
      << <<Int2Num(0), Int2Num(0)>>, <<Int2Num(1), Int2Num(2)>> >> }

ArgLists(fn, given) ==
    IF fn = "add"
    THEN { <<>>, <<Int2Num(5)>>, <<Int2Num(10)>>, <<Int2Num(15)>>,
           <<Int2Num(10), Int2Num(15)>>, <<Int2Num(5), Int2Num(10), Int2Num(15)>> }
    ELSE IF given = 0
    THEN {<<CurryOptions>>} \cup {<<CurryOptions, d>> : d \in CurryData}
    ELSE {<<d>> : d \in CurryData}

\* curry(add) and curry(linear's function): each returns curried, holding nothing.
InitCurry ==
    /\ suppliedOptions = NoOptions
    /\ data = <<>>
    /\ pc = "curry"
    /\ result = NoResult
    /\ query = Zero
    /\ predicted = <<Zero, Zero>>
    /\ results = <<>>
    /\ r2 = NaN
    /\ options = NoOptions
    /\ insight = NoInsight
    /\ calls = <<>>
    /\ defaultOptions = DEFAULT_OPTIONS
    /\ closures = << [fn |-> "add", args |-> <<>>, chain |-> <<>>],
                     [fn |-> "linear", args |-> <<>>, chain |-> <<>>] >>

\* The effect of a call of closures[c] with moreArgs that came to out: a function
\* returned is a new closure. The field chain records the arguments of the calls
\* that led to a function, in order.
Returning(c, moreArgs, out) ==
    LET f == closures[c]
        chain == f.chain \o moreArgs
        held == [closures EXCEPT ![c].args = HeldAfterCall(@, moreArgs)]
    IN  /\ closures' = IF out.kind = "function"
                       THEN Append(held, [fn |-> f.fn, args |-> out.args, chain |-> chain])
                       ELSE held
        /\ calls' = Append(calls,
               [fn |-> f.fn, target |-> c, args |-> moreArgs, chain |-> chain,
                return |-> IF out.kind = "function"
                           THEN [kind |-> "function", closure |-> Len(closures) + 1]
                           ELSE out])

\* A call of the function closures[c] with the arguments moreArgs.
CallCurried(c, moreArgs) ==
    /\ pc = "curry"
    /\ Len(calls) < MaxCalls
    /\ Returning(c, moreArgs, curried(closures[c].fn, closures[c].args \o moreArgs))
    /\ UNCHANGED <<single, defaultOptions>>

NextCurry ==
    \E c \in 1..Len(closures) :
        \E moreArgs \in ArgLists(closures[c].fn, Len(closures[c].chain)) :
            CallCurried(c, moreArgs)

SpecCurry == InitCurry /\ [][NextCurry]_vars

----------------------------------------------------------------------------
\* pipe

\* What a call of a stage does: it returns a value or throws an error.
Returned(v) == [threw |-> FALSE, value |-> v]

Thrown(message) == [threw |-> TRUE, value |-> [error |-> message]]

\* The stages of the pipelines: add1, multiply2, add10, op1, op2, op3 and
\* throwError, which throws on a negative number.
Stage(fn, x) ==
    CASE fn = "add1" -> Returned(fadd(x, One))
      [] fn = "multiply2" -> Returned(fmul(x, Int2Num(2)))
      [] fn = "add10" -> Returned(fadd(x, Int2Num(10)))
      [] fn = "op1" -> Returned(fadd(x, One))
      [] fn = "op2" -> Returned(fmul(x, Int2Num(2)))
      [] fn = "op3" -> Returned(fsub(x, One))
      [] fn = "throwError" -> IF flt(x, Zero) THEN Thrown("Negative number")
                              ELSE Returned(fmul(x, Int2Num(2)))

\* Variant of the loop that walks fns from the last stage to the first.
RECURSIVE LoopRightToLeft(_, _, _)
LoopRightToLeft(fns, n, input) ==
    IF n = 0 THEN [threw |-> FALSE, result |-> input, operations |-> <<>>]
    ELSE LET s == LoopRightToLeft(fns, n - 1, input)
             fn == fns[Len(fns) + 1 - n]
         IN  IF s.threw THEN s
             ELSE [threw |-> Stage(fn, s.result).threw,
                   result |-> Stage(fn, s.result).value,
                   operations |-> Append(s.operations, <<fn, s.result>>)]

\* for (const fn of fns) result = fn(result): the loop after its first n rounds.
\* A throw ends the loop. operations lists the stages called and their arguments.
RECURSIVE Loop(_, _, _)
Loop(fns, n, input) ==
    IF n = 0 THEN [threw |-> FALSE, result |-> input, operations |-> <<>>]
    ELSE LET s == Loop(fns, n - 1, input)
             fn == fns[n]
         IN  IF s.threw THEN s
             ELSE [threw |-> Stage(fn, s.result).threw,
                   result |-> Stage(fn, s.result).value,
                   operations |-> Append(s.operations, <<fn, s.result>>)]

\* Variant of the loop that consumes the stages (while (fns.length) fns.shift()):
\* the stages called are gone from the array the pipeline holds.
FnsAfterShift(fns, called) == SubSeq(fns, called + 1, Len(fns))

\* The array fns a pipeline holds, after a call that called its first stages:
\* the loop reads it and leaves it as it was.
FnsAfterCall(fns, called) == fns

\* The pipelines built.
Pipelines ==
    << <<"add1", "multiply2">>,
       <<"throwError", "add10">>,
       <<"op1", "op2", "op3">>,
       <<"add1", "throwError", "add10">> >>

PipeInputs == {Int2Num(-2), Int2Num(-1), Int2Num(5)}

\* pipe(...fns) for each of the pipelines: a function that holds fns.
InitPipe ==
    /\ suppliedOptions = NoOptions
    /\ data = <<>>
    /\ pc = "pipe"
    /\ result = NoResult
    /\ query = Zero
    /\ predicted = <<Zero, Zero>>
    /\ results = <<>>
    /\ r2 = NaN
    /\ options = NoOptions
    /\ insight = NoInsight
    /\ calls = <<>>
    /\ defaultOptions = DEFAULT_OPTIONS
    /\ closures = [c \in 1..Len(Pipelines) |-> [fns |-> Pipelines[c]]]

\* A call of the pipeline closures[c] with input.
CallPipeline(c, input) ==
    /\ pc = "pipe"
    /\ Len(calls) < MaxCalls
    /\ LET fns == closures[c].fns
           s == Loop(fns, Len(fns), input)
       IN  /\ calls' = Append(calls,
                  [fn |-> "pipeline", target |-> c, args |-> <<input>>,
                   operations |-> s.operations,
                   return |-> IF s.threw THEN [kind |-> "throw", error |-> s.result]
                              ELSE [kind |-> "value", value |-> s.result]])
           /\ closures' = [closures EXCEPT ![c].fns = FnsAfterCall(@, Len(s.operations))]
    /\ UNCHANGED <<single, defaultOptions>>

NextPipe == \E c \in 1..Len(closures), input \in PipeInputs : CallPipeline(c, input)

SpecPipe == InitPipe /\ [][NextPipe]_vars

----------------------------------------------------------------------------
\* Vocabulary of the properties

\* The positions of data whose y is present.
Present(d) == {i \in 1..Len(d) : d[i][2] # null}

\* d without the points whose y is null.
RECURSIVE WithoutNullY(_)
WithoutNullY(d) ==
    IF d = <<>> THEN <<>>
    ELSE IF Head(d)[2] = null THEN WithoutNullY(Tail(d))
    ELSE <<Head(d)>> \o WithoutNullY(Tail(d))

IsFiniteNumber(v) == v.k = "fin"

\* The positions of data whose y is present and whose x or y is NaN or +-Infinity.
NonFinite(d) ==
    {i \in Present(d) : ~IsFiniteNumber(d[i][1]) \/ ~IsFiniteNumber(d[i][2])}

Min(S) == CHOOSE i \in S : \A j \in S : i <= j

AllXIdentical(d) == \A i, j \in Present(d) : d[i][1] = d[j][1]

Failed(kind) == ~result.ok /\ result.errorType = kind

----------------------------------------------------------------------------
\* C1: an input with at least 2 points of finite y (x-values not all identical)
\* plus points whose y is null makes fit return ok:true with the slope,
\* intercept and R^2 of fit applied to the input without the null-y points.
C1_NullYPointsAreFilteredOut ==
    (/\ pc = "fit"
     /\ Present(data) # 1..Len(data)
     /\ Cardinality(Present(data)) >= 2
     /\ NonFinite(data) = {}
     /\ ~AllXIdentical(data))
    => LET clean == linear(suppliedOptions, WithoutNullY(data))
       IN  /\ result.ok
           /\ clean.ok
           /\ result.m = clean.m
           /\ result.b = clean.b
           /\ result.rSquared = clean.rSquared

\* C3: fit fails with InsufficientData whenever fewer than 2 input points have
\* a non-null y.
C3_FewerThanTwoPresentIsInsufficientData ==
    (pc = "fit" /\ Cardinality(Present(data)) < 2) => Failed("InsufficientData")

\* C4: with at least 2 points of non-null y, one of them having a NaN or
\* infinite coordinate, fit fails with InvalidInput and its message names the
\* index of the first such point (counted in the input, or counted among the
\* points that have a y).
C4_NonFiniteIsInvalidInputAtFirstIndex ==
    (/\ pc = "fit"
     /\ Cardinality(Present(data)) >= 2
     /\ NonFinite(data) # {})
    => LET first == Min(NonFinite(data))
       IN  /\ Failed("InvalidInput")
           /\ \/ result.message.args = <<first - 1>>
              \/ result.message.args =
                     <<Cardinality({j \in Present(data) : j < first})>>

\* C5: for at least 2 points with finite coordinates, fit fails with
\* DegenerateInput exactly when all x-values are identical.
C5_DegenerateIffAllXIdentical ==
    (/\ pc = "fit"
     /\ Len(data) >= 2
     /\ Present(data) = 1..Len(data)
     /\ NonFinite(data) = {})
    => (Failed("DegenerateInput") <=> AllXIdentical(data))

\* C6: the checks apply in the order InsufficientData, InvalidInput,
\* DegenerateInput, MathError: an input is reported with the earliest kind it
\* violates (fewer than 2 points with a y; a non-finite coordinate among those;
\* identical x-values), and any other failure is a MathError.
C6_EarliestViolatedCheckIsReported ==
    pc = "fit" =>
        IF Cardinality(Present(data)) < 2 THEN Failed("InsufficientData")
        ELSE IF NonFinite(data) # {} THEN Failed("InvalidInput")
        ELSE IF AllXIdentical(data) THEN Failed("DegenerateInput")
        ELSE result.ok \/ Failed("MathError")

----------------------------------------------------------------------------
\* Vocabulary of the numeric properties

\* The precision in force: the caller's, else the default.
ConfiguredPrecision ==
    IF "precision" \in DOMAIN suppliedOptions THEN suppliedOptions.precision
    ELSE DEFAULT_OPTIONS.precision

\* The engine's slope and intercept, whichever engine was called.
Slope == IF pc \in {"fit", "predict"} THEN result.m ELSE result.equation[1]

YIntercept == IF pc \in {"fit", "predict"} THEN result.b ELSE result.equation[2]

\* The integer k with k - 1/2 <= w < k + 1/2, for a finite w = m * 2^e.
NearestHalfUp(w) ==
    IF w.e >= 0 THEN w.m * Pow2(w.e)
    ELSE LET scale == Pow2(-w.e)
             t == IF w.m >= 0 THEN w.m \div scale ELSE -((-w.m) \div scale)
         IN  CHOOSE k \in {t - 1, t, t + 1} :
                 /\ (2 * k - 1) * scale <= 2 * w.m
                 /\ 2 * w.m < (2 * k + 1) * scale

\* v rounded to the nearest multiple of 10^-p, an exact half going up.
RoundHalfUp(v, p) ==
    IF p.k # "fin" THEN v
    ELSE LET factor == Int2Num(Pow10(NumToInt(p)))
         IN  fdiv(Int2Num(NearestHalfUp(fmul(v, factor))), factor)

\* s[1] + ... + s[n], added left to right
RECURSIVE SumTo(_, _)
SumTo(s, n) == IF n = 0 THEN Zero ELSE fadd(SumTo(s, n - 1), s[n])

Sigma(s) == SumTo(s, Len(s))

\* The sums of the least-squares formulas over the points with a y.
Obs == WithoutNullY(data)

SigmaX == Sigma([i \in 1..Len(Obs) |-> Obs[i][1]])

SigmaY == Sigma([i \in 1..Len(Obs) |-> Obs[i][2]])

SigmaXX == Sigma([i \in 1..Len(Obs) |-> fmul(Obs[i][1], Obs[i][1])])

SigmaXY == Sigma([i \in 1..Len(Obs) |-> fmul(Obs[i][1], Obs[i][2])])

N == Int2Num(Len(Obs))

\* (n * Sxy - Sx * Sy) / (n * Sxx - Sx^2)
Quotient ==
    fdiv(fsub(fmul(N, SigmaXY), fmul(SigmaX, SigmaY)),
         fsub(fmul(N, SigmaXX), fmul(SigmaX, SigmaX)))

\* Sy / n - slope * Sx / n
InterceptFor(slope) == fsub(fdiv(SigmaY, N), fdiv(fmul(slope, SigmaX), N))

\* Lines y = a * x + c whose coefficients are exact in the number format.
Lines ==
    {<<a, c>> : a \in {Int2Num(0), Int2Num(1), Int2Num(2), Dec(5, 10),
                        Dec(125, 1000), Dec(375, 1000)},
                c \in {Int2Num(0), Int2Num(1)}}

\* Every point of data lies on the line, and two x-values differ.
OnLine(d, ln) ==
    /\ Len(d) >= 2
    /\ \A i \in 1..Len(d) :
           /\ IsFiniteNumber(d[i][1])
           /\ d[i][2] = fadd(fmul(ln[1], d[i][1]), ln[2])
    /\ \E i, j \in 1..Len(d) : d[i][1] # d[j][1]

\* v and w agree once rounded to the precision in force.
AgreeUpToPrecision(v, w) ==
    RoundHalfUp(v, ConfiguredPrecision) = RoundHalfUp(w, ConfiguredPrecision)

----------------------------------------------------------------------------
\* C2: on success the points sequence is as long as the input and points[i] is
\* predict(x_i) at every position, those whose y was null included.
C2_PointsAlignWithInput ==
    (pc \in {"fit", "legacy"} /\ result.ok)
    => /\ Len(result.points) = Len(data)
       /\ \A i \in 1..Len(data) :
              result.points[i] = predict(result.predict, data[i][1])

C2_Witness ==
    /\ pc = "legacy"
    /\ result.ok
    /\ Len(data) = 3
    /\ data[2][2] = null
    /\ Len(result.points) = 3
    /\ result.points[2] = predict(result.predict, data[2][1])

C8_InterceptFromUnroundedSlope ==
    (pc \in {"fit", "legacy"} /\ result.ok)
    => /\ Slope = RoundHalfUp(Quotient, ConfiguredPrecision)
       /\ YIntercept = RoundHalfUp(InterceptFor(Quotient), ConfiguredPrecision)

\* C8 as amended: b is Sy/n - m*Sx/n rounded to the precision, m being the
\* slope already rounded to the precision.
C8_InterceptFromRoundedSlope ==
    (pc \in {"fit", "legacy"} /\ result.ok)
    => /\ Slope = RoundHalfUp(Quotient, ConfiguredPrecision)
       /\ YIntercept = RoundHalfUp(InterceptFor(Slope), ConfiguredPrecision)

C8_Witness ==
    /\ pc = "fit"
    /\ result.ok
    /\ ConfiguredPrecision = Int2Num(0)
    /\ Quotient = Dec(5, 10)
    /\ result.m = Int2Num(1)
    /\ result.b = Int2Num(-2)
    /\ RoundHalfUp(InterceptFor(Quotient), ConfiguredPrecision) = Int2Num(0)

\* C9: predict(x) is (round(x), round(m*x + b)) with the product taken on the
\* raw x, rounding being to the nearest multiple of 10^-precision, an exact half
\* going up; with precision 0, m = 1, b = 1: predict(1.5) has y = 3,
\* predict(0.4) has y = 1, predict(0.6) has y = 2.
C9_PredictRoundsTheRawProduct ==
    pc = "predict"
    => /\ predicted =
            << RoundHalfUp(query, ConfiguredPrecision),
               RoundHalfUp(fadd(fmul(result.m, query), result.b),
                           ConfiguredPrecision) >>
       /\ (/\ ConfiguredPrecision = Int2Num(0)
           /\ result.m = Int2Num(1)
           /\ result.b = Int2Num(1))
          => /\ query = Dec(15, 10) => predicted[2] = Int2Num(3)
             /\ query = Dec(4, 10) => predicted[2] = Int2Num(1)
             /\ query = Dec(6, 10) => predicted[2] = Int2Num(2)
             /\ query = Dec(-15, 10) => predicted[2] = Int2Num(0)

C9_Witness ==
    /\ pc = "predict"
    /\ ConfiguredPrecision = Int2Num(0)
    /\ result.m = Int2Num(1)
    /\ result.b = Int2Num(1)
    /\ query = Dec(15, 10)
    /\ predicted = <<Int2Num(2), Int2Num(3)>>

\* C10: when the options do not set precision, fit does not round: m and b
\* are the unrounded computed values.
C10_UnsetPrecisionMeansNoRounding ==
    (pc = "fit" /\ "precision" \notin DOMAIN suppliedOptions /\ result.ok)
    => /\ result.m = Quotient
       /\ result.b = InterceptFor(Quotient)

\* C10 as amended: when the options do not set precision the default
\* precision 2 applies, fit({}, data) returning what fit({precision: 2}, data)
\* returns; m and b are unrounded only when precision is passed as undefined.
C10_UnsetPrecisionMeansTwoDecimals ==
    pc = "fit"
    => /\ "precision" \notin DOMAIN suppliedOptions
          => /\ result = linear(WithPrecision(Int2Num(2)), data)
             /\ result.ok
                => /\ result.m = RoundHalfUp(Quotient, Int2Num(2))
                   /\ result.b = RoundHalfUp(InterceptFor(result.m), Int2Num(2))
       /\ ("precision" \in DOMAIN suppliedOptions
           /\ suppliedOptions.precision = undefined /\ result.ok)
          => /\ result.m = Quotient
             /\ result.b = InterceptFor(Quotient)
             /\ \A i \in 1..Len(data) :
                    result.points[i] =
                        <<data[i][1], fadd(fmul(Quotient, data[i][1]), result.b)>>

C10_Witness ==
    /\ pc = "fit"
    /\ "precision" \notin DOMAIN suppliedOptions
    /\ result.ok
    /\ Quotient = Dec(125, 1000)
    /\ result.m = Dec(13, 100)

----------------------------------------------------------------------------
\* Vocabulary of the R^2 properties

\* a <= b for finite a and b, compared exactly.
Leq(a, b) ==
    LET e == IF a.e < b.e THEN a.e ELSE b.e
    IN  a.m * Pow2(a.e - e) <= b.m * Pow2(b.e - e)

\* The observed y-values of d, and the y-values of res at the same positions.
ObservedY(d) == [i \in 1..Len(WithoutNullY(d)) |-> WithoutNullY(d)[i][2]]

RECURSIVE AlignedY(_, _)
AlignedY(d, res) ==
    IF d = <<>> THEN <<>>
    ELSE IF Head(d)[2] = null THEN AlignedY(Tail(d), Tail(res))
    ELSE <<Head(res)[2]>> \o AlignedY(Tail(d), Tail(res))

MeanOf(ys) == fdiv(Sigma(ys), Int2Num(Len(ys)))

Square(v) == fmul(v, v)

\* SStot = sum of (y - meanY)^2
SStot(ys) == Sigma([i \in 1..Len(ys) |-> Square(fsub(ys[i], MeanOf(ys)))])

\* SSres = sum of (y - yhat)^2
SSres(ys, yhats) == Sigma([i \in 1..Len(ys) |-> Square(fsub(ys[i], yhats[i]))])

\* The y-values of the fitted line at the observed x-values, from the rounded
\* coefficients.
FittedY ==
    LET m == RoundHalfUp(Quotient, ConfiguredPrecision)
        b == RoundHalfUp(InterceptFor(m), ConfiguredPrecision)
    IN  [i \in 1..Len(Obs) |->
            RoundHalfUp(fadd(fmul(m, Obs[i][1]), b), ConfiguredPrecision)]

\* The fit got as far as computing R^2.
ReachedR2 == result.ok \/ Failed("MathError")

----------------------------------------------------------------------------
\* C11: whenever fit returns ok:true, the returned rSquared satisfies
\* 0 <= rSquared <= 1.
C11_RSquaredWithinUnitInterval ==
    (pc = "fit" /\ result.ok)
    => /\ IsFiniteNumber(result.rSquared)
       /\ Leq(Zero, result.rSquared)
       /\ Leq(result.rSquared, One)

C13_RSquaredHelperCases ==
    pc = "rSquared"
    => LET ys == ObservedY(data)
           yhats == AlignedY(data, results)
       IN  IF Len(ys) = 0 THEN r2 = NaN
           ELSE IF SStot(ys) = Zero
           THEN (IF SSres(ys, yhats) = Zero THEN r2 = One ELSE r2 = NaN)
           ELSE r2 = fsub(One, fdiv(SSres(ys, yhats), SStot(ys)))

C13_Witness ==
    /\ pc = "rSquared"
    /\ Len(data) = 3
    /\ data[2][2] = null
    /\ data[1][2] = data[3][2]
    /\ results[1][2] = data[1][2]
    /\ results[2][2] # results[1][2]
    /\ results[3][2] = data[3][2]
    /\ r2 = One

\* The error kinds of a RegressionError.
ErrorKinds ==
    {"InsufficientData", "DegenerateInput", "MathError", "InvalidInput",
     "NumericalStability"}

\* C14: for every options object and every sequence of [x, y] pairs with x a
\* number (finite, NaN or infinite) and y a number or null, fit returns a value
\* tagged ok:true or ok:false and never throws.
C14_FitReturnsATaggedValue ==
    pc \in {"fit", "legacy"}
    => /\ "ok" \in DOMAIN result
       /\ result.ok \in BOOLEAN
       /\ ~result.ok => result.errorType \in ErrorKinds

C14_Witness ==
    /\ pc = "fit"
    /\ \E i \in 1..Len(data) : data[i][1] = NaN
    /\ \E i \in 1..Len(data) : data[i][2] = null
    /\ \E i \in 1..Len(data) : data[i][2] = PosInfinity
    /\ "ok" \in DOMAIN result
    /\ ~result.ok

----------------------------------------------------------------------------
\* Vocabulary of the insight properties

\* The translator's message and help text for an error kind.
TranslatedMessage(kind) ==
    IF kind = "InsufficientData"
    THEN "Unable to calculate trend: Not enough data points."
    ELSE IF kind = "InvalidInput" THEN "Invalid data provided."
    ELSE "An unexpected error occurred during linear regression calculation."

TranslatedHelpText(kind) ==
    IF kind = "InsufficientData"
    THEN "Linear regression requires at least two distinct data points. Please provide more data."
    ELSE IF kind = "InvalidInput"
    THEN "Ensure your data only contains valid numerical values (e.g., no 'null', 'undefined', or non-numeric strings)."
    ELSE "Please contact support with the details of the data you were trying to analyze."

\* insight is the translation of the error in result, and nothing more.
IsTranslationOfResult ==
    /\ DOMAIN insight = {"ok", "message", "helpText", "originalErrorType"}
    /\ insight.ok = FALSE
    /\ insight.originalErrorType = result.errorType
    /\ insight.message = TranslatedMessage(result.errorType)
    /\ insight.helpText = TranslatedHelpText(result.errorType)

\* The summaries of the two insights.
PositiveTrend == "There is a positive linear trend. As X increases, Y tends to increase."

NegativeTrend == "There is a negative linear trend. As X increases, Y tends to decrease."

NoTrend == "There is no significant linear trend. Y remains relatively constant as X changes."

StrongCorrelation == "There is a strong linear correlation (R-squared: ${rSquared.toFixed(2)}), indicating the model explains a large portion of the variance."

ModerateCorrelation == "There is a moderate linear correlation (R-squared: ${rSquared.toFixed(2)})."

WeakCorrelation == "There is a weak linear correlation (R-squared: ${rSquared.toFixed(2)}), suggesting the linear model may not be the best fit or other factors are at play."

\* The thresholds in force: the caller's, else 0.3 and 0.7.
WeakThreshold ==
    IF "rSquaredThresholdWeak" \in DOMAIN options
    THEN options.rSquaredThresholdWeak ELSE Dec(3, 10)

StrongThreshold ==
    IF "rSquaredThresholdStrong" \in DOMAIN options
    THEN options.rSquaredThresholdStrong ELSE Dec(7, 10)

\* a < b for finite a and b, compared exactly.
Less(a, b) == ~Leq(b, a)

\* The correlation insight was produced from a numeric rSquared.
Correlated ==
    /\ pc = "correlation"
    /\ "rSquared" \in DOMAIN result
    /\ IsFiniteNumber(result.rSquared)

----------------------------------------------------------------------------
\* C15: the error translator never fails and maps InsufficientData to the
\* 'Not enough data points' message, InvalidInput to 'Invalid data provided',
\* every other kind to the generic message, each with its help text, always
\* with ok:false and originalErrorType equal to the input's errorType.
C15_TranslatorIsTotal ==
    pc = "translated" => IsTranslationOfResult

C15_Witness ==
    /\ pc = "translated"
    /\ result.errorType = "SomeOtherError"
    /\ insight.originalErrorType = "SomeOtherError"
    /\ insight.message = "An unexpected error occurred during linear regression calculation."

\* C16: for an error e and any options, generateInsights(options, e) returns
\* exactly the translator's output for e: ok false, originalErrorType equal to
\* e.errorType, no insights sequence.
C16_ErrorsPassThroughTheTranslator ==
    (pc = "insights" /\ ~result.ok)
    => /\ IsTranslationOfResult
       /\ "insights" \notin DOMAIN insight

C16_Witness ==
    /\ pc = "insights"
    /\ ~result.ok
    /\ result.errorType = "MathError"
    /\ options # NoOptions
    /\ insight.originalErrorType = "MathError"
    /\ insight.ok = FALSE

\* C17: for any successful result, one whose rSquared is absent or NaN
\* included, and any options, generateInsights returns ok:true with exactly 2
\* insights, a TrendDescription then a CorrelationStrength.
C17_TwoInsightsForEverySuccess ==
    (pc = "insights" /\ result.ok)
    => /\ "ok" \in DOMAIN insight
       /\ insight.ok = TRUE
       /\ Len(insight.insights) = 2
       /\ insight.insights[1].type = "TrendDescription"
       /\ insight.insights[2].type = "CorrelationStrength"

\* C18: the trend insight classifies by the sign of m alone (m > 0 positive,
\* m < 0 negative, m = 0 no trend, however small |m| is); its data is {m, b}
\* unchanged and its annotations are the one string "drawTrendLine:<m>,<b>".
C18_TrendFollowsTheSignOfM ==
    (pc = "summary" /\ IsFiniteNumber(result.m))
    => /\ result.m.m > 0 => insight.summary = PositiveTrend
       /\ result.m.m < 0 => insight.summary = NegativeTrend
       /\ result.m.m = 0 => insight.summary = NoTrend
       /\ insight.type = "TrendDescription"
       /\ insight.data = [m |-> result.m, b |-> result.b]
       /\ insight.annotations =
              << [text |-> "drawTrendLine:${m},${b}", args |-> <<result.m, result.b>>] >>

C18_Witness ==
    /\ pc = "summary"
    /\ result.m = Dec(1, 10000)
    /\ insight.summary = PositiveTrend
    /\ Len(insight.annotations) = 1

\* C19: the correlation insight is 'strong' when rSquared >= strongThreshold
\* and 'moderate' when weakThreshold <= rSquared < strongThreshold, a value
\* equal to a threshold falling in the higher tier (0.3 moderate and 0.7 strong
\* by default); custom thresholds replace the defaults (weak 0.5, strong 0.9:
\* 0.6 is moderate).
C19_ThresholdsAreLowerInclusive ==
    Correlated
    => /\ Leq(StrongThreshold, result.rSquared)
          => insight.summary.text = StrongCorrelation
       /\ (Leq(WeakThreshold, result.rSquared) /\ Less(result.rSquared, StrongThreshold))
          => insight.summary.text = ModerateCorrelation
       /\ (options = NoOptions /\ result.rSquared = Dec(3, 10))
          => insight.summary.text = ModerateCorrelation
       /\ (options = NoOptions /\ result.rSquared = Dec(7, 10))
          => insight.summary.text = StrongCorrelation
       /\ (/\ options = [rSquaredThresholdWeak |-> Dec(5, 10),
                          rSquaredThresholdStrong |-> Dec(9, 10)]
           /\ result.rSquared = Dec(6, 10))
          => insight.summary.text = ModerateCorrelation

C19_Witness ==
    /\ Correlated
    /\ options = NoOptions
    /\ result.rSquared = Dec(7, 10)
    /\ insight.summary.text = StrongCorrelation

\* C20: for every pair of thresholds and every rSquared, rSquared below
\* weakThreshold is classified 'weak', with the caveat that the linear model
\* may not be the best fit.
C20_BelowWeakThresholdIsWeak ==
    (Correlated /\ Less(result.rSquared, WeakThreshold))
    => insight.summary.text = WeakCorrelation

\* The tier the thresholds t = <<weak, strong>> give to a finite r.
TierUnder(t, r) ==
    IF Leq(t[2], r) THEN StrongCorrelation
    ELSE IF Leq(t[1], r) THEN ModerateCorrelation
    ELSE WeakCorrelation

\* C21: each threshold falls back to its default independently (weak 0.3,
\* strong 0.7) and a supplied threshold is honoured: {} classifies 0.5 as
\* moderate; {rSquaredThresholdWeak: 0.4} classifies 0.35 as weak and keeps 0.7
\* as the strong boundary.
C21_ThresholdsDefaultIndependently ==
    Correlated
    => LET r == result.rSquared
           tier == insight.summary.text
           weakOnly(w) == [rSquaredThresholdWeak |-> w]
       IN  /\ options = NoOptions
              => tier = TierUnder(<<Dec(3, 10), Dec(7, 10)>>, r)
           /\ \A w \in {Dec(4, 10)} :
                 options = weakOnly(w) => tier = TierUnder(<<w, Dec(7, 10)>>, r)
           /\ DOMAIN options = {"rSquaredThresholdWeak", "rSquaredThresholdStrong"}
              => tier = TierUnder(<<options.rSquaredThresholdWeak,
                                    options.rSquaredThresholdStrong>>, r)
           /\ (options = NoOptions /\ r = Dec(5, 10)) => tier = ModerateCorrelation
           /\ (options = weakOnly(Dec(4, 10)) /\ r = Dec(35, 100))
              => tier = WeakCorrelation
           /\ (options = weakOnly(Dec(4, 10)) /\ r = Dec(7, 10))
              => tier = StrongCorrelation

C21_Witness ==
    /\ Correlated
    /\ options = [rSquaredThresholdWeak |-> Dec(4, 10)]
    /\ result.rSquared = Dec(35, 100)
    /\ insight.summary.text = WeakCorrelation
    /\ insight.data.rSquared = Dec(35, 100)

----------------------------------------------------------------------------
\* C22: fit and generateInsights are deterministic and stateless: two calls
\* with identical inputs return identical outputs, whatever calls with other
\* inputs are made in between.
C22_EqualInputsGiveEqualOutputs ==
    /\ \A i, j \in 1..Len(calls) :
           (calls[i].fn = calls[j].fn /\ calls[i].args = calls[j].args)
           => calls[i].return = calls[j].return
    /\ defaultOptions = DEFAULT_OPTIONS

C22_Witness ==
    /\ Len(calls) = 3
    /\ calls[1].fn = "linear"
    /\ calls[2].fn = "linear"
    /\ calls[3].fn = "linear"
    /\ calls[1].args = calls[3].args
    /\ calls[1].args[1] = NoOptions
    /\ calls[2].args[1] # NoOptions
    /\ calls[1].return.ok
    /\ calls[1].return.m = Dec(13, 100)
    /\ calls[3].return = calls[1].return

SameTagAndKind(r, q) ==
    /\ r.ok = q.ok
    /\ ~r.ok => r.errorType = q.errorType

\* q.points is r.points in every order p that turns d into e
PointsPermutedLikewise(r, q, d, e) ==
    \A p \in Orders(Len(d)) : e = Permute(d, p) => q.points = Permute(r.points, p)

\* C23: fitting the same points in another order gives the same tag,
\* the same error kind, the same m, b and rSquared, and points permuted likewise.
C23_FitIsIndependentOfInputOrder ==
    Len(calls) = 2 =>
        LET r == calls[1].return
            q == calls[2].return
        IN  /\ SameTagAndKind(r, q)
            /\ r.ok /\ q.ok =>
                   /\ r.m = q.m /\ r.b = q.b /\ r.rSquared = q.rSquared
                   /\ PointsPermutedLikewise(r, q, calls[1].args[2], calls[2].args[2])

\* v is a whole number of magnitude at most 2^20.
SmallWhole(v) == v.k = "fin" /\ v.e >= 0 /\ Abs(v.m) * Pow2(v.e) <= Pow2(20)

\* At least two and at most 4096 points with finite coordinates whose x-values
\* are all the same small whole number: the sums of x and of x*x are exact.
OnVerticalLine(d) ==
    /\ Len(d) >= 2
    /\ Len(d) <= 4096
    /\ \A i \in 1..Len(d) : IsFiniteNumber(d[i][1]) /\ IsFiniteNumber(d[i][2])
    /\ SmallWhole(d[1][1])
    /\ \A i \in 1..Len(d) : d[i][1] = d[1][1]

VerticalLineCalls ==
    {i \in 1..Len(calls) : calls[i].fn = "linear" /\ OnVerticalLine(calls[i].args[2])}

C25_CurryAppliesOnceArityIsReached ==
    \A i \in 1..Len(calls) :
        IF Len(calls[i].chain) >= Arity(calls[i].fn)
        THEN calls[i].return = [kind |-> "value", value |-> Apply(calls[i].fn, calls[i].chain)]
        ELSE calls[i].return.kind = "function"

\* add applied one argument at a time, and linear completed after its options.
C25_Witness ==
    /\ Len(calls) = 3
    /\ calls[1].args = <<Int2Num(5)>> /\ calls[1].return.kind = "function"
    /\ calls[2].target = calls[1].return.closure
    /\ calls[2].args = <<Int2Num(10)>> /\ calls[2].return.kind = "function"
    /\ calls[3].target = calls[2].return.closure
    /\ calls[3].args = <<Int2Num(15)>>
    /\ calls[3].return = [kind |-> "value", value |-> Int2Num(30)]

\* The calls that completed a partial application: the function called held
\* arguments already and the call returned fn's result.
Completions ==
    {i \in 1..Len(calls) : closures[calls[i].target].chain # <<>>
                           /\ calls[i].return.kind = "value"}

\* C30: partial applications share no accumulated arguments. Whatever calls were
\* made since, each function holds exactly the arguments of its own call chain,
\* and completing the same partial application with the same arguments again
\* returns the same result.
C30_PartialApplicationsShareNothing ==
    /\ \A c \in 1..Len(closures) : closures[c].args = closures[c].chain
    /\ \A i, j \in Completions :
           (calls[i].target = calls[j].target /\ calls[i].args = calls[j].args)
           => calls[i].return = calls[j].return

\* The fit pre-configured with options, completed on one dataset and then on another.
C30_Witness ==
    /\ Len(calls) = 3
    /\ calls[1].fn = "linear"
    /\ calls[1].args = <<CurryOptions>>
    /\ calls[2].target = calls[1].return.closure
    /\ calls[3].target = calls[1].return.closure
    /\ {2, 3} \subseteq Completions
    /\ calls[2].args # calls[3].args
    /\ calls[3].return.value = linear(CurryOptions, calls[3].args[1])
    /\ calls[3].return.value # calls[2].return.value

\* The value handed to stage k + 1 of fns on input x when stages 1..k return.
RECURSIVE Composed(_, _, _)
Composed(fns, k, x) ==
    IF k = 0 THEN x ELSE Stage(fns[k], Composed(fns, k - 1, x)).value

\* The stages of fns that throw on the value handed to them, on input x.
ThrowingStages(fns, x) ==
    {k \in 1..Len(fns) :
        /\ \A j \in 1..(k - 1) : ~Stage(fns[j], Composed(fns, j - 1, x)).threw
        /\ Stage(fns[k], Composed(fns, k - 1, x)).threw}

\* C26: a call of pipe(f1, ..., fk) on an input no stage throws on calls f1
\* through fk in that order, each once, f1 with the input and each later stage
\* with the value its predecessor returned, and returns fk's value; this holds
\* of every call, whatever calls came before.
C26_PipelineRunsStagesLeftToRight ==
    \A i \in 1..Len(calls) :
        LET fns == Pipelines[calls[i].target]
            x == calls[i].args[1]
        IN  ThrowingStages(fns, x) = {} =>
                /\ calls[i].operations =
                       [k \in 1..Len(fns) |-> <<fns[k], Composed(fns, k - 1, x)>>]
                /\ calls[i].return = [kind |-> "value", value |-> Composed(fns, Len(fns), x)]

\* pipe(op1, op2, op3) called on 5, after an earlier call of the same pipeline.
C26_Witness ==
    /\ Len(calls) = 3
    /\ calls[1].target = 3
    /\ calls[3].target = 3
    /\ calls[3].args = <<Int2Num(5)>>
    /\ calls[3].operations = << <<"op1", Int2Num(5)>>, <<"op2", Int2Num(6)>>,
                                <<"op3", Int2Num(12)>> >>
    /\ calls[3].return = [kind |-> "value", value |-> Int2Num(11)]

\* C29: when stage fi throws, the call of the pipeline throws the error fi
\* threw and no stage after fi is called; a later call of the same pipeline on
\* an input no stage throws on returns the composed value.
C29_ThrowPropagatesAndPipelineStaysUsable ==
    \A i \in 1..Len(calls) :
        LET fns == Pipelines[calls[i].target]
            x == calls[i].args[1]
        IN  \A k \in ThrowingStages(fns, x) :
                /\ calls[i].return =
                       [kind |-> "throw", error |-> Stage(fns[k], Composed(fns, k - 1, x)).value]
                /\ Len(calls[i].operations) = k
                /\ calls[i].operations[k][1] = fns[k]
                /\ \A j \in (i + 1)..Len(calls) :
                       (calls[j].target = calls[i].target
                        /\ ThrowingStages(fns, calls[j].args[1]) = {})
                       => calls[j].return =
                              [kind |-> "value",
                               value |-> Composed(fns, Len(fns), calls[j].args[1])]

\* pipe(add1, throwError, add10) throws on -2 in its second stage, then returns 22 on 5.
C29_Witness ==
    /\ Len(calls) = 2
    /\ calls[1].target = 4
    /\ calls[1].args = <<Int2Num(-2)>>
    /\ calls[1].return = [kind |-> "throw", error |-> [error |-> "Negative number"]]
    /\ Len(calls[1].operations) = 2
    /\ calls[2].target = 4
    /\ calls[2].args = <<Int2Num(5)>>
    /\ calls[2].return = [kind |-> "value", value |-> Int2Num(22)]

\* C27: a perfectly collinear input with at least two distinct x-values, a
\* horizontal line included, makes fit return ok:true with rSquared equal to 1
\* at every precision, also when rounding moves the fitted points off the
\* observed ones.
C27_CollinearInputHasRSquaredOne ==
    \A ln \in Lines :
        (pc \in {"fit", "predict"} /\ OnLine(data, ln))
        => result.ok /\ result.rSquared = One

\* The error kinds linear returns.
ReturnedKinds == {"InsufficientData", "InvalidInput", "DegenerateInput", "MathError"}

\* C28: every error fit returns has errorType InsufficientData, InvalidInput,
\* DegenerateInput or MathError; none has errorType NumericalStability.
C28_FitReturnsFourErrorKinds ==
    (pc = "fit" /\ ~result.ok)
    => result.errorType \in ReturnedKinds /\ result.errorType # "NumericalStability"

\* An input on which R-squared is undefined: the kind is MathError.
C28_Witness ==
    /\ pc = "fit"
    /\ ~result.ok
    /\ Len(data) >= 2
    /\ FirstInvalid(data, 1) = 0
    /\ Run(Len(data), Accumulate(data, Len(data))) # Zero
    /\ result.errorType = "MathError"

====
